---- MODULE Spec2Model ----
(***************************************************************************)
(* Model of labs/data/data_saurus/saurus_stats.py: compute_stats(df, col1, *)
(* col2), the pandas calls it makes (Series.mean, Series.std, Series.corr, *)
(* DataFrame.round) and the caller that invokes it on a DataFrame; and of   *)
(* data/data_saurus/plots_4.py: plot_scatter_grid(dfs, cols) and the calls *)
(* it makes on matplotlib and seaborn.                                     *)
(*                                                                         *)
(* Floating-point results are kept exact: a value is a record              *)
(*   [form |-> "rat",       num |-> p, den |-> q]   p / q                  *)
(*   [form |-> "sqrt",      num |-> p, den |-> q]   sqrt(p / q)            *)
(*   [form |-> "over_sqrt", num |-> p, den |-> q]   p / sqrt(q)            *)
(*   [form |-> "nan",       num |-> 0, den |-> 0]   not-a-number           *)
(* A cell of a DataFrame column is [kind |-> "num", v |-> n], the missing  *)
(* value [kind |-> "nan", v |-> 0], or a string [kind |-> "str", v |-> 0]  *)
(* (a string that is no numeral, such as "a"). A column is a sequence of   *)
(* cells over the shared row index 1..n; a DataFrame is a function from    *)
(* its column names to its columns.                                        *)
(***************************************************************************)
EXTENDS Integers, Sequences, FiniteSets

VARIABLES df, args, outcome, log, dfs, cols, canvas, error

plotvars == <<dfs, cols, canvas, error>>

vars == <<df, args, outcome, log, dfs, cols, canvas, error>>

\* ------------------------------------------------------------------ bounds
MaxRows == 2
MaxVal == 1
\* The worked examples: columns start + step * i over rows i = 1..n.
MaxExampleRows == 4
MaxStart == 5
MaxStep == 2
\* The longest list handed to plot_scatter_grid.
MaxDfs == 5

\* ------------------------------------------------------------- data model
ColumnNames == {"x", "y"}

NaNCell == [kind |-> "nan", v |-> 0]
StrCell == [kind |-> "str", v |-> 0]
NumCell(n) == [kind |-> "num", v |-> n]

NumericCells == {NaNCell} \cup {NumCell(n) : n \in 0..MaxVal}

\* A float64 column of n rows, and an object column of n strings.
NumericColumns(n) == [1..n -> NumericCells]
ObjectColumns(n) == {[i \in 1..n |-> StrCell]}

\* Every DataFrame of n rows whose columns are among ColumnNames, each column
\* all numeric (with missing values) or all strings.
DataFrames(n) ==
    UNION {[present -> NumericColumns(n) \cup ObjectColumns(n)] :
              present \in SUBSET ColumnNames}

NaN == [form |-> "nan", num |-> 0, den |-> 0]
Rat(p, q) == [form |-> "rat", num |-> p, den |-> q]
Sqrt(p, q) == [form |-> "sqrt", num |-> p, den |-> q]
OverSqrt(p, q) == [form |-> "over_sqrt", num |-> p, den |-> q]

\* ------------------------------------------------------------ arithmetic
RECURSIVE DotTo(_, _, _, _)
\* Sum of s[j].v * t[j].v over the rows j <= i that are in rows.
DotTo(s, t, rows, i) ==
    IF i = 0 THEN 0
    ELSE (IF i \in rows THEN s[i].v * t[i].v ELSE 0) + DotTo(s, t, rows, i - 1)

RECURSIVE SumTo(_, _, _)
\* Sum of s[j].v over the rows j <= i that are in rows.
SumTo(s, rows, i) ==
    IF i = 0 THEN 0
    ELSE (IF i \in rows THEN s[i].v ELSE 0) + SumTo(s, rows, i - 1)

notna(s) == {i \in DOMAIN s : s[i].kind # "nan"}

is_numeric(s) == \A i \in DOMAIN s : s[i].kind # "str"

\* ---------------------------------------------------------- Series.mean
\* skipna=True: the sum of the non-missing values over their count.
mean(s) ==
    LET rows == notna(s)
        count == Cardinality(rows)
    IN IF count = 0 THEN NaN ELSE Rat(SumTo(s, rows, Len(s)), count)

\* ----------------------------------------------------------- Series.std
\* Mutant of std: the population deviation, ddof=0.
std_population(s) ==
    LET rows == notna(s)
        count == Cardinality(rows)
        sm == SumTo(s, rows, Len(s))
        sq == DotTo(s, s, rows, Len(s))
    IN IF count = 0 THEN NaN
       ELSE Sqrt(count * sq - sm * sm, count * count)

\* skipna=True, ddof=1: sqrt(sum((v - avg)^2) / (count - 1)), which is
\* sqrt((count * sum(v^2) - sum(v)^2) / (count * (count - 1))).
std(s) ==
    LET rows == notna(s)
        count == Cardinality(rows)
        sm == SumTo(s, rows, Len(s))
        sq == DotTo(s, s, rows, Len(s))
    IN IF count <= 1 THEN NaN
       ELSE Sqrt(count * sq - sm * sm, count * (count - 1))

\* ---------------------------------------------------------- Series.corr
\* Mutant of corr: a zero variance gives 0 in place of not-a-number.
corr_zero_filled(s, other) ==
    LET rows == notna(s) \cap notna(other)
        n == Cardinality(rows)
        sa == SumTo(s, rows, Len(s))
        sb == SumTo(other, rows, Len(s))
        cov == n * DotTo(s, other, rows, Len(s)) - sa * sb
        va == n * DotTo(s, s, rows, Len(s)) - sa * sa
        vb == n * DotTo(other, other, rows, Len(s)) - sb * sb
    IN IF n = 0 THEN NaN
       ELSE IF va = 0 \/ vb = 0 THEN Rat(0, 1)
       ELSE OverSqrt(cov, va * vb)

\* Mutant of corr: the sample covariance, left unnormalised.
corr_covariance(s, other) ==
    LET rows == notna(s) \cap notna(other)
        n == Cardinality(rows)
        sa == SumTo(s, rows, Len(s))
        sb == SumTo(other, rows, Len(s))
        cov == n * DotTo(s, other, rows, Len(s)) - sa * sb
    IN IF n <= 1 THEN NaN ELSE Rat(cov, n * (n - 1))

\* method="pearson", min_periods=1: rows missing in either series are
\* dropped, then numpy.corrcoef: cov(a, b) / sqrt(var(a) * var(b)), which is
\* not-a-number when a variance is zero or no row is left.
corr(s, other) ==
    LET rows == notna(s) \cap notna(other)
        n == Cardinality(rows)
        sa == SumTo(s, rows, Len(s))
        sb == SumTo(other, rows, Len(s))
        cov == n * DotTo(s, other, rows, Len(s)) - sa * sb
        va == n * DotTo(s, s, rows, Len(s)) - sa * sa
        vb == n * DotTo(other, other, rows, Len(s)) - sb * sb
    IN IF n = 0 \/ va = 0 \/ vb = 0 THEN NaN ELSE OverSqrt(cov, va * vb)

\* ------------------------------------------------------ DataFrame.round
\* numpy.round(a / b, 0) for b > 0: the nearest integer, a tie to the even one.
RoundHalfEven(a, b) ==
    LET q == a \div b
        r == a % b
    IN IF 2 * r < b THEN q
       ELSE IF 2 * r > b THEN q + 1
       ELSE IF q % 2 = 0 THEN q ELSE q + 1

RECURSIVE FloorSqrtFrom(_, _, _)
\* The largest f' >= f with f'^2 * q <= p, given f^2 * q <= p.
FloorSqrtFrom(f, p, q) ==
    IF (f + 1) * (f + 1) * q <= p THEN FloorSqrtFrom(f + 1, p, q) ELSE f

\* numpy.round(10 * sqrt(p / q), 0) for p >= 0, q > 0.
RoundSqrtTenths(p, q) ==
    LET f == FloorSqrtFrom(0, 100 * p, q)
        half == (2 * f + 1) * (2 * f + 1) * q
    IN IF 400 * p < half THEN f
       ELSE IF 400 * p > half THEN f + 1
       ELSE IF f % 2 = 0 THEN f ELSE f + 1

\* The value in tenths, rounded.
Tenths(v) ==
    CASE v.form = "rat" -> RoundHalfEven(10 * v.num, v.den)
      [] v.form = "sqrt" -> RoundSqrtTenths(v.num, v.den)
      [] v.form = "over_sqrt" ->
            IF v.num >= 0 THEN RoundSqrtTenths(v.num * v.num, v.den)
            ELSE 0 - RoundSqrtTenths(v.num * v.num, v.den)

\* Mutant of round1: the value is left as computed.
round1_skipped(v) == v

\* round(v, 1) of one float: not-a-number stays not-a-number.
round1(v) == IF v.form = "nan" THEN NaN ELSE Rat(Tenths(v), 10)

\* DataFrame.round(1): every cell of every column, index and columns kept.
round(frame) ==
    [frame EXCEPT !.data =
        [c \in DOMAIN frame.data |->
            [i \in DOMAIN frame.data[c] |-> round1(frame.data[c][i])]]]

\* ------------------------------------------------------- compute_stats
KeyError(col) == [kind |-> "KeyError", key |-> col]
TypeError(col) == [kind |-> "TypeError", key |-> col]

\* s with the rows outside rows made missing.
Mask(s, rows) == [i \in DOMAIN s |-> IF i \in rows THEN s[i] ELSE NaNCell]

\* Mutant of summary: rows with a missing value in either column are dropped
\* before any statistic is taken.
summary_listwise(frame, col1, col2) ==
    LET rows == notna(frame[col1]) \cap notna(frame[col2])
        a == Mask(frame[col1], rows)
        b == Mask(frame[col2], rows)
    IN [kind |-> "DataFrame",
        index |-> <<col1, col2>>,
        data |-> [Mean |-> <<mean(a), mean(b)>>,
                  Std |-> <<std(a), std(b)>>,
                  Corr |-> <<corr(a, b), corr(a, b)>>]]

\* Mutant of summary: the rows follow the order of the column names, not
\* the order of the arguments.
summary_sorted(frame, col1, col2) ==
    LET first == IF col1 = "y" /\ col2 = "x" THEN col2 ELSE col1
        second == IF col1 = "y" /\ col2 = "x" THEN col1 ELSE col2
    IN [kind |-> "DataFrame",
        index |-> <<first, second>>,
        data |-> [Mean |-> <<mean(frame[first]), mean(frame[second])>>,
                  Std |-> <<std(frame[first]), std(frame[second])>>,
                  Corr |-> <<corr(frame[first], frame[second]),
                             corr(frame[first], frame[second])>>]]

\* The DataFrame of lines 16-20, before rounding.
summary(frame, col1, col2) ==
    [kind |-> "DataFrame",
     index |-> <<col1, col2>>,
     data |-> [Mean |-> <<mean(frame[col1]), mean(frame[col2])>>,
               Std |-> <<std(frame[col1]), std(frame[col2])>>,
               Corr |-> <<corr(frame[col1], frame[col2]),
                          corr(frame[col1], frame[col2])>>]]

\* Mutant of compute_stats: col2 is looked up and averaged before col1.
compute_stats_col2_first(frame, col1, col2) ==
    IF col2 \notin DOMAIN frame THEN KeyError(col2)
    ELSE IF ~is_numeric(frame[col2]) THEN TypeError(col2)
    ELSE IF col1 \notin DOMAIN frame THEN KeyError(col1)
    ELSE IF ~is_numeric(frame[col1]) THEN TypeError(col1)
    ELSE round(summary(frame, col1, col2))

\* Mutant of compute_stats: strings are coerced to missing values instead of
\* raising.
compute_stats_coerce(frame, col1, col2) ==
    IF col1 \notin DOMAIN frame THEN KeyError(col1)
    ELSE IF col2 \notin DOMAIN frame THEN KeyError(col2)
    ELSE LET coerced == [c \in DOMAIN frame |->
                            IF is_numeric(frame[c]) THEN frame[c]
                            ELSE Mask(frame[c], {})]
         IN round(summary(coerced, col1, col2))

\* Mutant of compute_stats: a failure on col2 is swallowed and the row of
\* col1 alone is returned.
compute_stats_partial(frame, col1, col2) ==
    IF col1 \notin DOMAIN frame THEN KeyError(col1)
    ELSE IF ~is_numeric(frame[col1]) THEN TypeError(col1)
    ELSE IF col2 \notin DOMAIN frame \/ ~is_numeric(frame[col2])
         THEN round([kind |-> "DataFrame",
                     index |-> <<col1>>,
                     data |-> [Mean |-> <<mean(frame[col1])>>,
                               Std |-> <<std(frame[col1])>>,
                               Corr |-> <<NaN>>]])
    ELSE round(summary(frame, col1, col2))

\* The expressions are evaluated left to right, top to bottom: df[col1]
\* raises KeyError when col1 is no column, df[col1].mean() raises TypeError
\* on strings, then the same for col2. Std and Corr raise nothing new.
compute_stats(frame, col1, col2) ==
    IF col1 \notin DOMAIN frame THEN KeyError(col1)
    ELSE IF ~is_numeric(frame[col1]) THEN TypeError(col1)
    ELSE IF col2 \notin DOMAIN frame THEN KeyError(col2)
    ELSE IF ~is_numeric(frame[col2]) THEN TypeError(col2)
    ELSE round(summary(frame, col1, col2))

\* ------------------------------------------------------- state machine
\* df: the caller's DataFrame; args, outcome: the arguments and the result
\* (a DataFrame or the exception raised) of the latest call; log: for each
\* argument pair called so far, the outcome of the first call with it.
NoCall == <<>>
NoOutcome == [kind |-> "none"]

\* plot_scatter_grid has not been called: no list, no columns, nothing drawn.
PlotIdle ==
    /\ dfs = <<>>
    /\ cols = NoCall
    /\ canvas = <<>>
    /\ error = "none"

\* The caller holds any DataFrame of 1..MaxRows rows; no call has been made.
Init ==
    /\ df \in UNION {DataFrames(n) : n \in 1..MaxRows}
    /\ args = NoCall
    /\ outcome = NoOutcome
    /\ log = <<>>
    /\ PlotIdle

\* A column of n rows without missing values, in arithmetic progression.
ProgressionColumns(n) ==
    {[i \in 1..n |-> NumCell(start + step * i)] :
        start \in 0..MaxStart, step \in 0..MaxStep}

\* The DataFrames of the worked examples: columns x and y, both complete,
\* such as {x: [1,2,3,4], y: [2,4,6,8]} and {x: [5,5,5,5], y: [1,2,3,4]}.
ExampleFrames ==
    UNION {[ColumnNames -> ProgressionColumns(n)] : n \in 1..MaxExampleRows}

InitExamples ==
    /\ df \in ExampleFrames
    /\ args = NoCall
    /\ outcome = NoOutcome
    /\ log = <<>>
    /\ PlotIdle

\* One call compute_stats(df, col1, col2) by the caller holding df. Nothing
\* in the function assigns to df or to a module-level name.
ComputeStats(col1, col2) ==
    /\ args' = <<col1, col2>>
    /\ outcome' = compute_stats(df, col1, col2)
    /\ df' = df

\* Mutant of DefaultCol2: the default of col2 repeats that of col1.
DefaultCol2_x == "x"

\* The defaults of the signature: col1: str = 'x', col2: str = 'y'.
DefaultCol1 == "x"
DefaultCol2 == "y"

\* One call compute_stats(df), the column arguments left out.
ComputeStatsDefault == ComputeStats(DefaultCol1, DefaultCol2)

\* The observer's record of the call just made.
Record ==
    log' = [a \in DOMAIN log \cup {args'} |->
                IF a \in DOMAIN log THEN log[a] ELSE outcome']

Next == \E col1 \in ColumnNames, col2 \in ColumnNames :
            ComputeStats(col1, col2) /\ UNCHANGED <<log, plotvars>>

NextLogged == \E col1 \in ColumnNames, col2 \in ColumnNames :
                  ComputeStats(col1, col2) /\ Record /\ UNCHANGED plotvars

NextDefault == ComputeStatsDefault /\ UNCHANGED <<log, plotvars>>

\* --------------------------------------------------- plot_scatter_grid
\* The rendering surface is the sequence of the calls made on matplotlib and
\* seaborn, in order. An event is [op, ax, arg]: ax is the (row, column) of
\* the subplot in the 2x2 grid, <<>> for a call on the figure.
RequiredFrames == 4
GridRows == 2
GridCols == 2

\* axes.flat: the subplots of the grid, row by row.
AxesFlat == <<<<0, 0>>, <<0, 1>>, <<1, 0>>, <<1, 1>>>>

\* f"Plot {i + 1}" for i in range(4), and title += " (Columns not found)".
Title(number, suffix) == [text |-> "Plot", number |-> number, suffix |-> suffix]
NotFoundSuffix == " (Columns not found)"

Subplots == [op |-> "subplots", ax |-> <<>>,
             arg |-> [nrows |-> GridRows, ncols |-> GridCols]]
Scatterplot(ax, data, c) ==
    [op |-> "scatterplot", ax |-> ax, arg |-> [data |-> data, x |-> c[1], y |-> c[2]]]
SetXticks(ax) == [op |-> "set_xticks", ax |-> ax, arg |-> [ticks |-> <<>>]]
SetYticks(ax) == [op |-> "set_yticks", ax |-> ax, arg |-> [ticks |-> <<>>]]
SetTitle(ax, title) == [op |-> "set_title", ax |-> ax, arg |-> title]
TightLayout == [op |-> "tight_layout", ax |-> <<>>, arg |-> [none |-> TRUE]]
Show == [op |-> "show", ax |-> <<>>, arg |-> [none |-> TRUE]]

\* all(col in df for col in cols)
HasColumns(frame, c) == \A k \in DOMAIN c : c[k] \in DOMAIN frame

\* One pass of the loop body, on the i-th subplot, DataFrame and title.
LoopBody(list, c, i) ==
    IF HasColumns(list[i], c)
    THEN <<Scatterplot(AxesFlat[i], list[i], c),
           SetTitle(AxesFlat[i], Title(i, ""))>>
    ELSE <<SetXticks(AxesFlat[i]),
           SetYticks(AxesFlat[i]),
           SetTitle(AxesFlat[i], Title(i, NotFoundSuffix))>>

RECURSIVE LoopFrom(_, _, _)
\* The passes i, i + 1, ... of the loop over zip(axes.flat, dfs, titles).
LoopFrom(list, c, i) ==
    IF i > GridRows * GridCols \/ i > Len(list) THEN <<>>
    ELSE LoopBody(list, c, i) \o LoopFrom(list, c, i + 1)

RECURSIVE LoopUntilMissing(_, _, _)
\* Mutant loop: the first DataFrame without the columns ends the loop.
LoopUntilMissing(list, c, i) ==
    IF i > GridRows * GridCols \/ i > Len(list) THEN <<>>
    ELSE IF HasColumns(list[i], c)
         THEN LoopBody(list, c, i) \o LoopUntilMissing(list, c, i + 1)
         ELSE LoopBody(list, c, i)

\* Mutant of plot_scatter_grid: the length test rejects short lists only.
plot_scatter_grid_at_least(list, c) ==
    IF Len(list) < RequiredFrames
    THEN [error |-> "ValueError", canvas |-> <<>>]
    ELSE [error |-> "none",
          canvas |-> <<Subplots>> \o LoopFrom(list, c, 1)
                        \o <<TightLayout, Show>>]

\* Mutant of plot_scatter_grid: a DataFrame without the columns ends the
\* loop.
plot_scatter_grid_break(list, c) ==
    IF Len(list) # RequiredFrames
    THEN [error |-> "ValueError", canvas |-> <<>>]
    ELSE [error |-> "none",
          canvas |-> <<Subplots>> \o LoopUntilMissing(list, c, 1)
                        \o <<TightLayout, Show>>]

\* plot_scatter_grid(dfs, cols): the exception raised and the calls made on
\* the rendering surface.
plot_scatter_grid(list, c) ==
    IF Len(list) # RequiredFrames
    THEN [error |-> "ValueError", canvas |-> <<>>]
    ELSE [error |-> "none",
          canvas |-> <<Subplots>> \o LoopFrom(list, c, 1)
                        \o <<TightLayout, Show>>]

\* The DataFrames handed to the plot: one row, any of the columns present.
PlotFrames ==
    UNION {[present -> {<<NumCell(0)>>}] : present \in SUBSET ColumnNames}

InitPlot ==
    /\ df = <<>>
    /\ args = NoCall
    /\ outcome = NoOutcome
    /\ log = <<>>
    /\ dfs \in UNION {[1..n -> PlotFrames] : n \in 0..MaxDfs}
    /\ cols = NoCall
    /\ canvas = <<>>
    /\ error = "none"

\* One call plot_scatter_grid(dfs, cols) on a fresh figure.
PlotScatterGrid(c) ==
    /\ cols' = c
    /\ error' = plot_scatter_grid(dfs, c).error
    /\ canvas' = plot_scatter_grid(dfs, c).canvas
    /\ UNCHANGED <<dfs, df, args, outcome, log>>

NextPlot == \E c \in ColumnNames \X ColumnNames : PlotScatterGrid(c)

\* Single calls on every DataFrame.
Spec == Init /\ [][Next]_vars

\* Sequences of calls on one DataFrame, with the record of earlier outcomes.
SpecLogged == Init /\ [][NextLogged]_vars

\* One call without column arguments on each worked example.
SpecDefault == InitExamples /\ [][NextDefault]_vars

\* Calls of plot_scatter_grid on every list of up to MaxDfs DataFrames.
SpecPlot == InitPlot /\ [][NextPlot]_vars

\* ================================================================ claims
Abs(n) == IF n < 0 THEN 0 - n ELSE n

Called == args # NoCall

\* Both arguments name existing numeric columns of df.
Valid ==
    /\ Called
    /\ \A i \in 1..2 : args[i] \in DOMAIN df /\ is_numeric(df[args[i]])

Returned == Called /\ outcome.kind = "DataFrame"
Raised == Called /\ outcome.kind \in {"KeyError", "TypeError"}

InTenths(cell) == cell.form = "rat" /\ cell.den = 10

\* cell is the arithmetic mean of the non-missing values of s, to within
\* half a tenth (not-a-number when s has none).
MeanRounded(cell, s) ==
    LET rows == notna(s)
        n == Cardinality(rows)
        sm == SumTo(s, rows, Len(s))
    IN IF n = 0 THEN cell = NaN
       ELSE InTenths(cell) /\ 2 * Abs(10 * sm - cell.num * n) <= n

\* cell is sqrt(sum((v - avg)^2) / (n - 1)) over the n non-missing values of
\* s, to within half a tenth (not-a-number when n < 2).
StdRounded(cell, s) ==
    LET rows == notna(s)
        n == Cardinality(rows)
        sm == SumTo(s, rows, Len(s))
        sq == DotTo(s, s, rows, Len(s))
        p == n * sq - sm * sm
        q == n * (n - 1)
        k == cell.num
    IN IF n < 2 THEN cell = NaN
       ELSE /\ InTenths(cell)
            /\ k >= 0
            /\ k = 0 \/ (2 * k - 1) * (2 * k - 1) * q <= 400 * p
            /\ 400 * p <= (2 * k + 1) * (2 * k + 1) * q

\* cell is the Pearson coefficient of a and b over the rows present in
\* both, to within half a tenth (not-a-number when it is undefined).
CorrRounded(cell, a, b) ==
    LET rows == notna(a) \cap notna(b)
        n == Cardinality(rows)
        sa == SumTo(a, rows, Len(a))
        sb == SumTo(b, rows, Len(a))
        cov == n * DotTo(a, b, rows, Len(a)) - sa * sb
        va == n * DotTo(a, a, rows, Len(a)) - sa * sa
        vb == n * DotTo(b, b, rows, Len(a)) - sb * sb
        k == Abs(cell.num)
    IN IF n = 0 \/ va = 0 \/ vb = 0 THEN cell = NaN
       ELSE /\ InTenths(cell)
            /\ cov > 0 => cell.num >= 0
            /\ cov < 0 => cell.num <= 0
            /\ k = 0 \/ (2 * k - 1) * (2 * k - 1) * va * vb <= 400 * cov * cov
            /\ 400 * cov * cov <= (2 * k + 1) * (2 * k + 1) * va * vb

\* The value is an integer multiple of 0.1.
IsMultipleOfTenth(v) ==
    CASE v.form = "nan" -> FALSE
      [] v.form = "rat" -> (10 * v.num) % v.den = 0
      [] v.form = "sqrt" ->
            \E k \in 0..(10 * (MaxVal + 1)) : k * k * v.den = 100 * v.num
      [] v.form = "over_sqrt" ->
            \E k \in 0..(10 * (MaxVal + 1)) :
                k * k * v.den = 100 * v.num * v.num

Fields == {"Mean", "Std", "Corr"}

\* The table has the three fields, two rows each.
TwoByThree(t) ==
    /\ Len(t.index) = 2
    /\ DOMAIN t.data = Fields
    /\ \A c \in Fields : Len(t.data[c]) = 2

\* C1: with two existing numeric columns the call returns a table of exactly
\* two rows and the fields Mean, Std, Corr; row 0 is labelled col1 and holds
\* the mean and deviation of col1, row 1 is labelled col2 and holds those of
\* col2, whatever the order of the columns in the dataset.
C1_RowsInArgumentOrder ==
    Valid =>
        /\ outcome.kind = "DataFrame"
        /\ TwoByThree(outcome)
        /\ outcome.index = args
        /\ \A i \in 1..2 :
              /\ MeanRounded(outcome.data.Mean[i], df[args[i]])
              /\ StdRounded(outcome.data.Std[i], df[args[i]])
              /\ CorrRounded(outcome.data.Corr[i], df[args[1]], df[args[2]])

\* A call (y, x) whose two rows differ, so that their order shows.
C1_Witness ==
    /\ Valid
    /\ args = <<"y", "x">>
    /\ outcome.kind = "DataFrame"
    /\ outcome.data.Mean[1] # outcome.data.Mean[2]
    /\ outcome.data.Std[1] # outcome.data.Std[2]

\* C2: row 0's Mean is the mean of col1 and row 1's Mean the mean of col2,
\* rounded to one decimal, each over that column's own non-missing values.
C2_MeanPerColumn ==
    Valid =>
        /\ outcome.kind = "DataFrame"
        /\ MeanRounded(outcome.data.Mean[1], df[args[1]])
        /\ MeanRounded(outcome.data.Mean[2], df[args[2]])

\* x is missing in a row where y is not, and y's mean still counts the row.
C2_Witness ==
    /\ args = <<"x", "y">>
    /\ "x" \in DOMAIN df /\ "y" \in DOMAIN df
    /\ df["x"] = <<NaNCell, NumCell(0)>>
    /\ df["y"] = <<NumCell(1), NumCell(0)>>
    /\ outcome.kind = "DataFrame"
    /\ outcome.data.Mean = <<Rat(0, 10), Rat(5, 10)>>

\* C3: the Corr of row 0 and the Corr of row 1 are the same value, the
\* Pearson coefficient of col1 and col2 rounded to one decimal.
C3_CorrSharedPearson ==
    Valid =>
        /\ outcome.kind = "DataFrame"
        /\ outcome.data.Corr[1] = outcome.data.Corr[2]
        /\ CorrRounded(outcome.data.Corr[1], df[args[1]], df[args[2]])

\* Two different columns, perfectly anticorrelated.
C3_Witness ==
    /\ Valid
    /\ args[1] # args[2]
    /\ outcome.kind = "DataFrame"
    /\ outcome.data.Corr = <<Rat(0 - 10, 10), Rat(0 - 10, 10)>>

\* C4: each row's Std is the sample deviation (denominator n - 1) of that
\* row's column over its own values, rounded to one decimal.
C4_SampleStd ==
    Valid =>
        /\ outcome.kind = "DataFrame"
        /\ StdRounded(outcome.data.Std[1], df[args[1]])
        /\ StdRounded(outcome.data.Std[2], df[args[2]])

\* Values 0 and 1: the sample deviation 0.707 rounds to 0.7, the
\* population deviation would be 0.5.
C4_Witness ==
    /\ Valid
    /\ outcome.kind = "DataFrame"
    /\ outcome.data.Std[1] = Rat(7, 10)
    /\ outcome.data.Std[2] = Rat(0, 10)

\* C5 as stated: all six cells of a returned table are integer multiples
\* of 0.1.
C5_AllCellsMultiplesOfTenth ==
    Returned =>
        \A c \in DOMAIN outcome.data : \A i \in DOMAIN outcome.data[c] :
            IsMultipleOfTenth(outcome.data[c][i])

\* C5 amended: every cell of a returned table is not-a-number or an integer
\* multiple of 0.1.
C5_CellsRoundedOrNaN ==
    Returned =>
        \A c \in DOMAIN outcome.data : \A i \in DOMAIN outcome.data[c] :
            \/ outcome.data[c][i] = NaN
            \/ IsMultipleOfTenth(outcome.data[c][i])

\* A table with a deviation that rounding changed (0.707 to 0.7) beside an
\* undefined correlation.
C5_Witness ==
    /\ Returned
    /\ outcome.data.Std[1] = Rat(7, 10)
    /\ outcome.data.Corr[1] = NaN
    /\ outcome.data.Mean[1] = Rat(5, 10)

\* C6 as stated: a call with col1 or col2 absent from the dataset raises
\* the column-not-found error (KeyError).
C6_AbsentRaisesKeyError ==
    (Called /\ \E i \in 1..2 : args[i] \notin DOMAIN df) =>
        outcome.kind = "KeyError"

\* C6 amended: a call with col1 or col2 absent returns no table; it raises
\* KeyError for col1 when col1 is absent, KeyError for col2 when col1 is a
\* numeric column, and the non-numeric error for col1 when col1 holds
\* strings and only col2 is absent.
C6_AbsentRaises ==
    (Called /\ \E i \in 1..2 : args[i] \notin DOMAIN df) =>
        IF args[1] \notin DOMAIN df THEN outcome = KeyError(args[1])
        ELSE IF is_numeric(df[args[1]]) THEN outcome = KeyError(args[2])
        ELSE outcome = TypeError(args[1])

\* col1 is a numeric column and col2 is absent.
C6_Witness ==
    /\ Called
    /\ args[1] \in DOMAIN df /\ is_numeric(df[args[1]])
    /\ args[2] \notin DOMAIN df
    /\ outcome = KeyError(args[2])

\* C7 as stated: a call with col1 or col2 naming a column of strings raises
\* the non-numeric error (TypeError).
C7_StringsRaiseTypeError ==
    (Called /\ \E i \in 1..2 :
                  args[i] \in DOMAIN df /\ ~is_numeric(df[args[i]])) =>
        outcome.kind = "TypeError"

\* C7 amended: a call with col1 or col2 naming a column of strings returns
\* no table; it raises TypeError for col1 when col1 holds strings, TypeError
\* for col2 when col1 is a numeric column, and KeyError for col1 when col1
\* is absent and only col2 holds strings.
C7_StringsRaise ==
    (Called /\ \E i \in 1..2 :
                  args[i] \in DOMAIN df /\ ~is_numeric(df[args[i]])) =>
        IF args[1] \notin DOMAIN df THEN outcome = KeyError(args[1])
        ELSE IF is_numeric(df[args[1]]) THEN outcome = TypeError(args[2])
        ELSE outcome = TypeError(args[1])

\* col1 is a numeric column and col2 holds strings.
C7_Witness ==
    /\ Called
    /\ args[1] \in DOMAIN df /\ is_numeric(df[args[1]])
    /\ args[2] \in DOMAIN df /\ ~is_numeric(df[args[2]])
    /\ outcome = TypeError(args[2])

\* C8: a call ends with a table whose six cells all hold a value (a number
\* in tenths or not-a-number), or with an exception and no table at all.
C8_AllOrNothing ==
    Called =>
        \/ /\ outcome.kind = "DataFrame"
           /\ TwoByThree(outcome)
           /\ \A c \in Fields : \A i \in 1..2 :
                 outcome.data[c][i] = NaN \/ InTenths(outcome.data[c][i])
        \/ /\ outcome.kind \in {"KeyError", "TypeError"}
           /\ DOMAIN outcome = {"kind", "key"}

\* The row of col1 could be computed, the row of col2 could not.
C8_Witness ==
    /\ Called
    /\ args[1] \in DOMAIN df /\ is_numeric(df[args[1]])
    /\ notna(df[args[1]]) # {}
    /\ ~Valid
    /\ Raised

\* The column holds one value in every row, and at least two rows.
IsConstant(s) ==
    /\ Len(s) >= 2
    /\ \A i \in DOMAIN s : s[i].kind = "num" /\ s[i].v = s[1].v

\* The column holds numbers only, not all of them equal.
Varies(s) ==
    /\ \A i \in DOMAIN s : s[i].kind = "num"
    /\ \E i \in DOMAIN s : s[i].v # s[1].v

ExampleLinear ==
    [x |-> <<NumCell(1), NumCell(2), NumCell(3), NumCell(4)>>,
     y |-> <<NumCell(2), NumCell(4), NumCell(6), NumCell(8)>>]

\* C11: on {x: [1,2,3,4], y: [2,4,6,8]} a call without column arguments
\* uses col1 = "x" and col2 = "y" and returns the rows ("x", 2.5, 1.3, 1.0)
\* and ("y", 5.0, 2.6, 1.0), in that order.
C11_LinearExample ==
    (Called /\ df = ExampleLinear) =>
        /\ args = <<"x", "y">>
        /\ outcome = [kind |-> "DataFrame",
                      index |-> <<"x", "y">>,
                      data |-> [Mean |-> <<Rat(25, 10), Rat(50, 10)>>,
                                Std |-> <<Rat(13, 10), Rat(26, 10)>>,
                                Corr |-> <<Rat(10, 10), Rat(10, 10)>>]]

\* The call without column arguments has been made on that dataset.
C11_Witness ==
    /\ Called
    /\ df = ExampleLinear
    /\ outcome.kind = "DataFrame"

\* C12: when column x is constant and column y varies, the call on (x, y)
\* yields Std(x) = 0.0 and a Corr that is not-a-number in both rows.
C12_ConstantColumn ==
    (Called /\ args = <<"x", "y">> /\ IsConstant(df["x"]) /\ Varies(df["y"])) =>
        /\ outcome.kind = "DataFrame"
        /\ outcome.data.Std[1] = Rat(0, 10)
        /\ outcome.data.Corr = <<NaN, NaN>>

\* x is [5,5,5,5] and y is [2,4,6,8].
C12_Witness ==
    /\ Called
    /\ args = <<"x", "y">>
    /\ df["x"] = <<NumCell(5), NumCell(5), NumCell(5), NumCell(5)>>
    /\ df["y"] = ExampleLinear["y"]
    /\ outcome.kind = "DataFrame"
    /\ outcome.data.Std = <<Rat(0, 10), Rat(26, 10)>>
    /\ outcome.data.Corr[1] = NaN

PlotCalled == cols # NoCall

\* The place in axes.flat of the subplot at (row, column), counted from 1.
FlatIndex(ax) == GridCols * ax[1] + ax[2] + 1

\* The calls made on the i-th subplot, in order.
OnSubplot(i) ==
    SelectSeq(canvas, LAMBDA e : e.ax # <<>> /\ FlatIndex(e.ax) = i)

\* C13: the call raises ValueError exactly when dfs does not hold 4
\* DataFrames (fewer or more), and then nothing has been created, titled or
\* shown.
C13_LengthChecked ==
    PlotCalled =>
        /\ (error = "ValueError") <=> (Len(dfs) # 4)
        /\ error = "ValueError" => canvas = <<>>

\* A list of five DataFrames, every one with the columns asked for.
C13_Witness ==
    /\ PlotCalled
    /\ Len(dfs) = 5
    /\ \A i \in DOMAIN dfs : HasColumns(dfs[i], cols)
    /\ error = "ValueError"
    /\ canvas = <<>>

\* C14: with 4 DataFrames nothing is raised; the i-th DataFrame goes to the
\* i-th subplot, row by row: with both columns present it is scattered and
\* titled "Plot i", otherwise nothing is scattered, the x and y ticks are
\* cleared and the title is "Plot i (Columns not found)"; each subplot depends
\* on its own DataFrame only, subplots are handled in list order, and the
\* figure is shown last, after the four titles.
C14_GridPerSubplot ==
    (PlotCalled /\ Len(dfs) = 4) =>
        /\ error = "none"
        /\ canvas # <<>>
        /\ canvas[1].op = "subplots"
        /\ canvas[Len(canvas)].op = "show"
        /\ \A j \in DOMAIN canvas : canvas[j].op = "show" => j = Len(canvas)
        /\ \A i \in 1..4 :
              LET e == OnSubplot(i)
              IN IF cols[1] \in DOMAIN dfs[i] /\ cols[2] \in DOMAIN dfs[i]
                 THEN /\ Len(e) = 2
                      /\ e[1].op = "scatterplot"
                      /\ e[1].ax = <<(i - 1) \div 2, (i - 1) % 2>>
                      /\ e[1].arg = [data |-> dfs[i], x |-> cols[1], y |-> cols[2]]
                      /\ e[2].op = "set_title"
                      /\ e[2].arg = [text |-> "Plot", number |-> i, suffix |-> ""]
                 ELSE /\ Len(e) = 3
                      /\ e[1].op = "set_xticks" /\ e[1].arg.ticks = <<>>
                      /\ e[2].op = "set_yticks" /\ e[2].arg.ticks = <<>>
                      /\ e[3].op = "set_title"
                      /\ e[3].arg = [text |-> "Plot", number |-> i,
                                     suffix |-> " (Columns not found)"]
        /\ \A j \in DOMAIN canvas : \A k \in DOMAIN canvas :
              (j < k /\ canvas[j].ax # <<>> /\ canvas[k].ax # <<>>) =>
                  FlatIndex(canvas[j].ax) <= FlatIndex(canvas[k].ax)

\* The second DataFrame lacks a column, the first, third and fourth have
\* both, and the figure has been shown.
C14_Witness ==
    /\ PlotCalled
    /\ Len(dfs) = 4
    /\ ~HasColumns(dfs[2], cols)
    /\ \A i \in {1, 3, 4} : HasColumns(dfs[i], cols)
    /\ Len(canvas) = 12
    /\ canvas[Len(canvas)].op = "show"

\* The table with row 0 and row 1 exchanged, labels included.
SwapRows(t) ==
    [kind |-> t.kind,
     index |-> <<t.index[2], t.index[1]>>,
     data |-> [c \in DOMAIN t.data |-> <<t.data[c][2], t.data[c][1]>>]]

\* The tables on record, by the arguments of the call.
Tabled == {a \in DOMAIN log : log[a].kind = "DataFrame"}

\* C15: for existing numeric columns a and b, the call on (b, a) returns the
\* table of the call on (a, b) with its two rows exchanged, so Corr is the
\* same under both orders; and a column's Mean and Std are the same
\* whichever column it is paired with, in whichever row it appears.
C15_SwapExchangesRows ==
    /\ \A a \in Tabled :
          <<a[2], a[1]>> \in DOMAIN log =>
              /\ log[<<a[2], a[1]>>] = SwapRows(log[a])
              /\ log[<<a[2], a[1]>>].data.Corr = log[a].data.Corr
    /\ \A a \in Tabled : \A b \in Tabled : \A i \in 1..2 : \A j \in 1..2 :
          a[i] = b[j] =>
              /\ log[a].data.Mean[i] = log[b].data.Mean[j]
              /\ log[a].data.Std[i] = log[b].data.Std[j]

\* Both orders of two different columns are on record, with rows that
\* differ, beside the call pairing x with itself; x has a missing value
\* where y has none.
C15_Witness ==
    /\ {<<"x", "y">>, <<"y", "x">>, <<"x", "x">>} \subseteq Tabled
    /\ log[<<"x", "y">>].data.Mean[1] # log[<<"x", "y">>].data.Mean[2]
    /\ log[<<"y", "x">>].index = <<"y", "x">>
    /\ \E i \in DOMAIN df["x"] :
          df["x"][i].kind = "nan" /\ df["y"][i].kind = "num"

====
